---- MODULE Spec2Model ----
(***************************************************************************)
(* Model of the danxiangli image pipeline:                                 *)
(*   src/resize_single2.py          process_image(input_path, output_path, *)
(*                                  ...) and its __main__ block            *)
(*   src/scripts/process_image.py   download_image, process_image(img,...) *)
(*                                  and main()                             *)
(* One run of one entry point is a behaviour: open/download, crop, new     *)
(* canvas, scale, paste, recolor, rotate, save, exit.                      *)
(***************************************************************************)
EXTENDS Integers, Sequences, FiniteSets, TLC

(***************************************************************************)
(* Python float arithmetic (IEEE-754 binary64, round to nearest even).     *)
(* A positive float is [e |-> exponent of the leading bit, m |-> the       *)
(* Mantissa significand bits, most significant first].                     *)
(***************************************************************************)
Mantissa == 53

\* exponent e with d * 2^e <= t < d * 2^(e+1), for integers t, d >= 1
Exponent(t, d) ==
    IF t >= d
    THEN CHOOSE e \in 0..30 : d * (2^e) <= t /\ t < d * (2^(e + 1))
    ELSE -(CHOOSE k \in 1..30 : t * (2^k) >= d /\ t * (2^(k - 1)) < d)

\* n further quotient bits of r / D (r < D), by long division
RECURSIVE DivBits(_, _, _)
DivBits(r, D, n) ==
    IF n = 0 THEN <<>>
    ELSE IF 2 * r >= D THEN <<1>> \o DivBits(2 * r - D, D, n - 1)
         ELSE <<0>> \o DivBits(2 * r, D, n - 1)

\* the remainder left after those n bits
RECURSIVE DivRem(_, _, _)
DivRem(r, D, n) ==
    IF n = 0 THEN r
    ELSE IF 2 * r >= D THEN DivRem(2 * r - D, D, n - 1)
         ELSE DivRem(2 * r, D, n - 1)

\* bits + 1 (the result is one bit longer when every bit was 1)
IncBits(bits) ==
    IF \A i \in 1..Len(bits) : bits[i] = 1
    THEN <<1>> \o [i \in 1..Len(bits) |-> 0]
    ELSE LET k == CHOOSE i \in 1..Len(bits) :
                     bits[i] = 0 /\ \A j \in (i + 1)..Len(bits) : bits[j] = 1
         IN  [i \in 1..Len(bits) |->
                 IF i < k THEN bits[i] ELSE IF i = k THEN 1 ELSE 0]

\* the float with leading-bit exponent e whose exact significand is `bits`
\* (at least Mantissa of them) followed by a tail that is below / at / above
\* half a unit of the last kept bit: tail is -1, 0 or 1
RoundToFloat(e, bits, tail) ==
    LET kept == SubSeq(bits, 1, Mantissa)
        up   == tail > 0 \/ (tail = 0 /\ kept[Mantissa] = 1)
        inc  == IncBits(kept)
    IN  IF ~up THEN [e |-> e, m |-> kept]
        ELSE IF Len(inc) > Mantissa
             THEN [e |-> e + 1, m |-> SubSeq(inc, 1, Mantissa)]
             ELSE [e |-> e, m |-> inc]

\* how the bits after the first Mantissa compare with half a unit
HalfTail(bits, sticky) ==
    LET rest == SubSeq(bits, Mantissa + 1, Len(bits))
    IN  IF Len(rest) = 0 THEN -1
        ELSE IF rest[1] = 0 THEN -1
        ELSE IF sticky \/ \E i \in 2..Len(rest) : rest[i] = 1 THEN 1
        ELSE 0

\* float(t) / float(d) for integers t, d >= 1    (scale_x, scale_y)
FloatDiv(t, d) ==
    LET e    == Exponent(t, d)
        T    == IF e >= 0 THEN t ELSE t * (2^(-e))
        D    == IF e >= 0 THEN d * (2^e) ELSE d
        bits == <<1>> \o DivBits(T - D, D, Mantissa - 1)
        rem  == DivRem(T - D, D, Mantissa - 1)
        tail == IF 2 * rem > D THEN 1 ELSE IF 2 * rem = D THEN 0 ELSE -1
    IN  RoundToFloat(e, bits, tail)

\* bits * c for a small integer c >= 1, as bits without leading zeros
RECURSIVE CarryBits(_)
CarryBits(n) == IF n = 0 THEN <<>> ELSE CarryBits(n \div 2) \o <<n % 2>>

\* the product of bits[1..i] and c, plus carry
RECURSIVE MulBits(_, _, _, _)
MulBits(bits, c, i, carry) ==
    IF i = 0 THEN CarryBits(carry)
    ELSE LET s == c * bits[i] + carry
         IN  IF s % 2 = 0
             THEN MulBits(bits, c, i - 1, s \div 2) \o <<0>>
             ELSE MulBits(bits, c, i - 1, s \div 2) \o <<1>>

\* float(c) * f for an integer c >= 1    (cropped_width * scale)
FloatMulInt(c, f) ==
    LET prod == MulBits(f.m, c, Mantissa, 0)
        e    == f.e + (Len(prod) - Mantissa)
    IN  RoundToFloat(e, prod, HalfTail(prod, FALSE))

\* the integer whose binary digits are bits[1..n]
RECURSIVE BitsToInt(_, _)
BitsToInt(bits, n) ==
    IF n = 0 THEN 0 ELSE 2 * BitsToInt(bits, n - 1) + bits[n]

\* int(f) for a positive float f
FloatToInt(f) == IF f.e < 0 THEN 0 ELSE BitsToInt(f.m, f.e + 1)

\* f <= g for positive floats
FloatLeq(f, g) ==
    \/ f.e < g.e
    \/ /\ f.e = g.e
       /\ \/ f.m = g.m
          \/ \E i \in 1..Mantissa :
                /\ f.m[i] < g.m[i]
                /\ \A j \in 1..(i - 1) : f.m[j] = g.m[j]

\* min(scale_x, scale_y)
FloatMin(f, g) == IF FloatLeq(f, g) THEN f ELSE g

(***************************************************************************)
(* Raster images: [width, height, px].  The pixel buffer px is kept as the *)
(* operation that produced it (a decoded picture, a crop of a buffer, a    *)
(* white fill, a paste of one buffer over another, the recolored band of a *)
(* buffer, a rotation of a buffer); PixelAt(px, <<col, row>>) is the       *)
(* <<R, G, B>> triple PIL's pixel access pixels[col, row] reads from it.   *)
(***************************************************************************)
White == <<255, 255, 255>>
Red   == <<255, 0, 0>>

\* pixel values the model's pictures are made of: near-black ones, ones with
\* a channel at the threshold, red and white
Palette ==
    << <<0, 0, 0>>, <<49, 49, 49>>, <<49, 49, 50>>, <<50, 50, 50>>,
       <<10, 200, 30>>, Red, White >>

Coords(w, h) == (0..(w - 1)) \X (0..(h - 1))

NoImage == [width |-> 0, height |-> 0, px |-> [op |-> "none"]]

\* a decoded picture of a given size; seed picks which one
PatternPixel(seed, p) == Palette[((3 * p[1] + 5 * p[2] + seed) % Len(Palette)) + 1]
Picture(w, h, seed) ==
    [width |-> w, height |-> h, px |-> [op |-> "picture", seed |-> seed]]

\* CropBox with the right edge left at the image's own width
CropBoxFullRight(im, a) ==
    [left  |-> a.left_right_crop,
     upper |-> a.top_bottom_crop,
     right |-> im.width,
     lower |-> im.height - a.top_bottom_crop]

\* crop_box = (left_right_crop, top_bottom_crop,
\*             original_width - left_right_crop, original_height - top_bottom_crop)
CropBox(im, a) ==
    [left  |-> a.left_right_crop,
     upper |-> a.top_bottom_crop,
     right |-> im.width - a.left_right_crop,
     lower |-> im.height - a.top_bottom_crop]

Max0(n) == IF n < 0 THEN 0 ELSE n

\* PIL Image.crop on a box inside the image: the sub-rectangle; a box with
\* right <= left or lower <= upper gives an image with that dimension 0
CropImage(im, box) ==
    [width  |-> Max0(box.right - box.left),
     height |-> Max0(box.lower - box.upper),
     px     |-> [op |-> "crop", src |-> im.px, left |-> box.left, upper |-> box.upper]]

\* Image.new('RGB', (output_width, output_height), 'white')
NewCanvas(w, h) ==
    [width |-> w, height |-> h, px |-> [op |-> "fill", color |-> White]]

\* scale = min(output_width / cropped_width, output_height / cropped_height)
ScaleOf(cw, ch, tw, th) == FloatMin(FloatDiv(tw, cw), FloatDiv(th, ch))

\* NewSize with max(scale_x, scale_y) in place of min
NewSizeMax(cw, ch, tw, th) ==
    LET sx == FloatDiv(tw, cw)
        sy == FloatDiv(th, ch)
        s  == IF FloatLeq(sx, sy) THEN sy ELSE sx
    IN  <<FloatToInt(FloatMulInt(cw, s)), FloatToInt(FloatMulInt(ch, s))>>

\* NewSize with the integer division // in place of /
NewSizeIntDiv(cw, ch, tw, th) ==
    LET sx == tw \div cw
        sy == th \div ch
        s  == IF sx <= sy THEN sx ELSE sy
    IN  <<cw * s, ch * s>>

\* (int(cropped_width * scale), int(cropped_height * scale))
NewSize(cw, ch, tw, th) ==
    LET s == ScaleOf(cw, ch, tw, th)
    IN  <<FloatToInt(FloatMulInt(cw, s)), FloatToInt(FloatMulInt(ch, s))>>

\* PIL Image.resize(size, LANCZOS): a copy when the size is unchanged, else
\* a resampled picture of the new size (its pixel values depend on the
\* filter; seed picks them)
ResizeImage(im, size, seed) ==
    IF <<im.width, im.height>> = size
    THEN im
    ELSE Picture(size[1], size[2], seed)

\* Offset that pastes at the canvas origin instead of centering
OffsetOrigin(tw, th, size) == <<0, 0>>

\* x = (output_width - new_width) // 2 ; y = (output_height - new_height) // 2
Offset(tw, th, size) == <<(tw - size[1]) \div 2, (th - size[2]) \div 2>>

\* canvas.paste(im, (x, y)): the canvas pixels under im are replaced
PasteImage(canvas, im, at) ==
    [canvas EXCEPT !.px =
        [op |-> "paste", under |-> canvas.px, over |-> im.px,
         x |-> at[1], y |-> at[2], w |-> im.width, h |-> im.height]]

\* whether canvas pixel p lies under a w x h image pasted at (x, y)
Covered(p, x, y, w, h) ==
    p[1] >= x /\ p[1] < x + w /\ p[2] >= y /\ p[2] < y + h

RowStart == 45
RowEnd == 215
Threshold == 50

\* r < 50 and g < 50 and b < 50
NearBlack(c) == c[1] < Threshold /\ c[2] < Threshold /\ c[3] < Threshold

\* RecolorPixel that adds to the red channel instead of assigning pure red
RecolorPixelAdd(c) == IF NearBlack(c) THEN <<c[1] + 25, c[2], c[3]>> ELSE c

\* the body of the inner loop: a near-black pixel becomes (255, 0, 0)
RecolorPixel(c) == IF NearBlack(c) THEN Red ELSE c

\* InBand with the last row included: range(45, 215 + 1)
InBandInclusive(row, height) == row >= RowStart /\ row <= RowEnd /\ row < height

\* for row in range(45, 215): if row < result.height:
InBand(row, height) == row >= RowStart /\ row < RowEnd /\ row < height

\* the two loops over the band's rows and all columns, on the buffer in place
RecolorBand(im) ==
    [im EXCEPT !.px = [op |-> "recolor", src |-> im.px, height |-> im.height]]

\* RotateSource of a transposition (no flip) instead of a rotation
RotateSourceTransposed(q, w) == <<q[2], q[1]>>

\* result.rotate(90, expand=True) is transpose(ROTATE_90), counter-clockwise:
\* the output is height x width and out[row = W-1-x][col = y] = in[row y][col x],
\* so output pixel q is read from source pixel (W - 1 - q.row, q.col)
RotateSource(q, w) == <<w - 1 - q[2], q[1]>>

Rotate90(im) ==
    [width |-> im.height, height |-> im.width,
     px |-> [op |-> "rotate90", src |-> im.px, w |-> im.width]]

\* pixels[col, row] of a buffer
RECURSIVE PixelAt(_, _)
PixelAt(px, p) ==
    CASE px.op = "picture"  -> PatternPixel(px.seed, p)
      [] px.op = "fill"     -> px.color
      [] px.op = "crop"     -> PixelAt(px.src, <<px.left + p[1], px.upper + p[2]>>)
      [] px.op = "paste"    ->
            IF Covered(p, px.x, px.y, px.w, px.h)
            THEN PixelAt(px.over, <<p[1] - px.x, p[2] - px.y>>)
            ELSE PixelAt(px.under, p)
      [] px.op = "recolor"  ->
            IF InBand(p[2], px.height)
            THEN RecolorPixel(PixelAt(px.src, p))
            ELSE PixelAt(px.src, p)
      [] px.op = "rotate90" -> PixelAt(px.src, RotateSource(p, px.w))

\* two images with the same size and the same pixel values
SameImage(a, b) ==
    /\ a.width = b.width /\ a.height = b.height
    /\ \A p \in Coords(a.width, a.height) : PixelAt(a.px, p) = PixelAt(b.px, p)

(***************************************************************************)
(* The run.                                                                *)
(***************************************************************************)
VARIABLES
    module,       \* "resize_single2" or "scripts" (scripts/process_image.py)
    viaMain,      \* TRUE: run as a script (__main__ / main()); FALSE: process_image called
    args,         \* output_width, output_height, left_right_crop, top_bottom_crop
    source,       \* the picture behind input_path / the URL
    pc,           \* where the run is
    img, cropped_img, result, scaled_img, rotated,   \* the images of process_image
    scale, new_size, offset,                        \* scale, (new_width, new_height), (x, y)
    err,          \* the exception in flight or handled, and the stage that raised it
    reported,     \* the error messages printed by the except clauses
    outFile,      \* the file at output_path
    exitStatus,   \* the process exit status, -1 while running
    done          \* the stages completed so far, in order

vars == <<module, viaMain, args, source, pc, img, cropped_img, result, scaled_img,
          rotated, scale, new_size, offset, err, reported, outFile, exitStatus, done>>

images == <<img, cropped_img, result, scaled_img, rotated>>
locals == <<scale, new_size, offset>>
input  == <<module, viaMain, args, source>>

NoErr   == [kind |-> "none", stage |-> "none"]
NoFloat == [e |-> 0, m |-> <<>>]
NoSize  == <<-1, -1>>
NoFile  == [status |-> "absent", image |-> NoImage]

\* the literals of both __main__ blocks: 300 x 400, crops 60 and 68
DefaultArgs ==
    [output_width |-> 300, output_height |-> 400,
     left_right_crop |-> 60, top_bottom_crop |-> 68]

\* sides of the small source pictures
MaxSrc == 4
\* crop margins of the small calls
MaxCrop == 2
\* sides of the small targets
MaxOut == 3
\* pictures per size
MaxSeed == 1

Seeds == 0..MaxSeed

\* heights around the recolored band's first and last row
BandHeights == {RowStart - 1, RowStart, RowStart + 1, RowEnd - 1, RowEnd, RowEnd + 1}

Args(tw, th, lr, tb) ==
    [output_width |-> tw, output_height |-> th,
     left_right_crop |-> lr, top_bottom_crop |-> tb]

\* small pictures, margins and targets: every shape of crop, scale and paste
GeometryInputs ==
    { [args |-> Args(tw, th, lr, tb), source |-> Picture(w, h, 0)] :
        w \in 1..MaxSrc, h \in 1..MaxSrc,
        lr \in 0..MaxCrop, tb \in 0..MaxCrop,
        tw \in 1..MaxOut, th \in 1..MaxOut }

\* narrow pictures and canvases whose height is around the band's rows
BandInputs ==
    { [args |-> Args(tw, th, 0, tb), source |-> Picture(w, h + 2 * tb, seed)] :
        w \in 1..2, h \in BandHeights, tb \in 0..1,
        tw \in 1..2, th \in BandHeights, seed \in Seeds }

\* sizes on which the float product falls short of the exact one:
\* int(11 * (15 / 11)) = 14
FloatInputs ==
    { [args |-> Args(t, t, 0, 0), source |-> Picture(w, h, seed)] :
        w \in {11, 22}, h \in {11, 22}, t \in {15}, seed \in Seeds }

\* what the scripts are run on: the daily picture (420 x 536), one a row
\* shorter, and pictures no wider or higher than the fixed margins allow
MainSizes == {<<420, 536>>, <<420, 535>>, <<120, 536>>, <<100, 100>>}

MainInputs ==
    { [args |-> DefaultArgs, source |-> Picture(s[1], s[2], seed)] :
        s \in MainSizes, seed \in Seeds }

\* a call whose margins exceed the picture: left_right_crop = 250 on a
\* 400-wide picture
WideMarginInputs ==
    { [args |-> Args(300, 400, 250, 68), source |-> Picture(400, 536, seed)] :
        seed \in Seeds }

CallInputs == GeometryInputs \cup BandInputs \cup FloatInputs \cup WideMarginInputs

Init ==
    /\ module \in {"resize_single2", "scripts"}
    /\ viaMain \in BOOLEAN
    /\ \E i \in (IF viaMain THEN MainInputs ELSE CallInputs) :
          /\ args = i.args
          /\ source = i.source
    \* scripts' process_image(img, ...) is handed an opened image
    /\ pc = IF module = "scripts" /\ ~viaMain THEN "opened" ELSE "start"
    /\ img = IF module = "scripts" /\ ~viaMain THEN source ELSE NoImage
    /\ cropped_img = NoImage /\ result = NoImage
    /\ scaled_img = NoImage /\ rotated = NoImage
    /\ scale = NoFloat /\ new_size = NoSize /\ offset = NoSize
    /\ err = NoErr /\ reported = <<>>
    /\ outFile = NoFile /\ exitStatus = -1 /\ done = <<>>

\* an exception leaves the function: nothing else is assigned
Raise(kind, stage) ==
    /\ pc' = "raised"
    /\ err' = [kind |-> kind, stage |-> stage]

\* resize_single2.process_image: img = Image.open(input_path)
Open ==
    /\ module = "resize_single2" /\ pc = "start"
    /\ \/ /\ img' = source /\ pc' = "opened" /\ err' = err
       \/ /\ Raise("FileNotFoundError", "fetch") /\ img' = img
       \/ /\ Raise("UnidentifiedImageError", "decode") /\ img' = img
    /\ UNCHANGED <<input, cropped_img, result, scaled_img, rotated, locals,
                   reported, outFile, exitStatus, done>>

\* scripts main(): img = download_image(get_today_image_url())
Download ==
    /\ module = "scripts" /\ viaMain /\ pc = "start"
    /\ \/ /\ img' = source /\ pc' = "opened" /\ err' = err
       \/ /\ Raise("RequestException", "fetch") /\ img' = img
       \/ /\ Raise("UnidentifiedImageError", "decode") /\ img' = img
    /\ UNCHANGED <<input, cropped_img, result, scaled_img, rotated, locals,
                   reported, outFile, exitStatus, done>>

\* cropped_img = img.crop(crop_box): loads the lazily opened file, then crops.
\* A box with right < left or lower < upper raises ValueError in the Pillow
\* releases that check the box and gives an empty image in those that do not.
Crop ==
    /\ pc = "opened"
    /\ LET box == CropBox(img, args)
       IN  \/ /\ Raise("OSError", "decode")
              /\ UNCHANGED <<cropped_img, done>>
           \/ /\ box.right < box.left \/ box.lower < box.upper
              /\ Raise("ValueError", "crop")
              /\ UNCHANGED <<cropped_img, done>>
           \/ /\ cropped_img' = CropImage(img, box)
              /\ pc' = "cropped" /\ err' = err
              /\ done' = Append(done, "crop")
    /\ UNCHANGED <<input, img, result, scaled_img, rotated, locals,
                   reported, outFile, exitStatus>>

\* result = Image.new('RGB', (output_width, output_height), 'white')
Canvas ==
    /\ pc = "cropped"
    /\ result' = NewCanvas(args.output_width, args.output_height)
    /\ pc' = "canvas"
    /\ UNCHANGED <<input, img, cropped_img, scaled_img, rotated, locals, err,
                   reported, outFile, exitStatus, done>>

\* scale_x, scale_y, scale, new_width, new_height, scaled_img = cropped_img.resize(...)
Scale ==
    /\ pc = "canvas"
    /\ LET cw == cropped_img.width
           ch == cropped_img.height
           size == NewSize(cw, ch, args.output_width, args.output_height)
       IN  \/ /\ cw = 0 \/ ch = 0
              /\ Raise("ZeroDivisionError", "scale")
              /\ UNCHANGED <<scale, new_size, scaled_img, done>>
           \/ /\ cw > 0 /\ ch > 0
              /\ size[1] < 1 \/ size[2] < 1
              /\ Raise("ValueError", "scale")
              /\ scale' = ScaleOf(cw, ch, args.output_width, args.output_height)
              /\ new_size' = size
              /\ UNCHANGED <<scaled_img, done>>
           \/ /\ cw > 0 /\ ch > 0
              /\ size[1] >= 1 /\ size[2] >= 1
              /\ scale' = ScaleOf(cw, ch, args.output_width, args.output_height)
              /\ new_size' = size
              /\ \E seed \in Seeds : scaled_img' = ResizeImage(cropped_img, size, seed)
              /\ pc' = "scaled" /\ err' = err
              /\ done' = Append(done, "scale")
    /\ UNCHANGED <<input, img, cropped_img, result, rotated, offset,
                   reported, outFile, exitStatus>>

\* x, y, result.paste(scaled_img, (x, y))
Paste ==
    /\ pc = "scaled"
    /\ offset' = Offset(args.output_width, args.output_height, new_size)
    /\ result' = PasteImage(result, scaled_img, offset')
    /\ pc' = "pasted"
    /\ done' = Append(done, "compose")
    /\ UNCHANGED <<input, img, cropped_img, scaled_img, rotated, scale, new_size,
                   err, reported, outFile, exitStatus>>

\* pixels = result.load(); the two loops over rows 45..214 and the columns
Recolor ==
    /\ pc = "pasted"
    /\ result' = RecolorBand(result)
    /\ pc' = "recolored"
    /\ done' = Append(done, "recolor")
    /\ UNCHANGED <<input, img, cropped_img, scaled_img, rotated, locals,
                   err, reported, outFile, exitStatus>>

\* result = result.rotate(90, expand=True): a new image, kept here as rotated
Rotate ==
    /\ pc = "recolored"
    /\ rotated' = Rotate90(result)
    /\ pc' = "rotated"
    /\ done' = Append(done, "rotate")
    /\ UNCHANGED <<input, img, cropped_img, result, scaled_img, locals,
                   err, reported, outFile, exitStatus>>

\* Save that also runs when an exception is in flight, as in a finally block
SaveInFinally ==
    /\ pc \in {"rotated", "raised"}
    /\ module = "resize_single2" \/ viaMain
    /\ outFile = NoFile
    /\ outFile' = [status |-> "written", image |-> rotated]
    /\ pc' = IF pc = "rotated" THEN "saved" ELSE pc
    /\ done' = IF pc = "rotated" THEN Append(done, "save") ELSE done
    /\ UNCHANGED <<input, images, locals, err, reported, exitStatus>>

\* result.save(output_path, quality=99): in resize_single2 the last step of
\* process_image, in scripts the step of main() after process_image returned.
\* A failing save leaves no file or a partial one.
Save ==
    /\ pc = "rotated"
    /\ module = "resize_single2" \/ viaMain
    /\ \/ /\ outFile' = [status |-> "written", image |-> rotated]
          /\ pc' = "saved" /\ err' = err
          /\ done' = Append(done, "save")
       \/ /\ Raise("OSError", "save")
          /\ \E st \in {"absent", "partial"} : outFile' = [status |-> st, image |-> NoImage]
          /\ done' = done
    /\ UNCHANGED <<input, images, locals, reported, exitStatus>>

\* return result, to the caller of process_image
Return ==
    /\ ~viaMain
    /\ \/ module = "resize_single2" /\ pc = "saved"
       \/ module = "scripts" /\ pc = "rotated"
    /\ pc' = "returned"
    /\ UNCHANGED <<input, images, locals, err, reported, outFile, exitStatus, done>>

\* the script ran to its end
ExitOK ==
    /\ viaMain /\ pc = "saved"
    /\ exitStatus' = 0
    /\ pc' = "exited"
    /\ UNCHANGED <<input, images, locals, err, reported, outFile, done>>

\* resize_single2 __main__: except FileNotFoundError: print(...) /
\* except Exception as e: print(...); the script then ends normally
HandleScript ==
    /\ viaMain /\ module = "resize_single2" /\ pc = "raised"
    /\ reported' = Append(reported,
                          IF err.kind = "FileNotFoundError"
                          THEN "file_not_found" ELSE "process_error")
    /\ exitStatus' = 0
    /\ pc' = "exited"
    /\ UNCHANGED <<input, images, locals, err, outFile, done>>

\* scripts main(): except RequestException: print(...); raise /
\* except Exception: print(...); raise; the uncaught exception ends the process
HandleMain ==
    /\ viaMain /\ module = "scripts" /\ pc = "raised"
    /\ reported' = Append(reported,
                          IF err.kind = "RequestException"
                          THEN "download_failed" ELSE "process_error")
    /\ exitStatus' = 1
    /\ pc' = "exited"
    /\ UNCHANGED <<input, images, locals, err, outFile, done>>

Next ==
    \/ Open \/ Download \/ Crop \/ Canvas \/ Scale \/ Paste \/ Recolor
    \/ Rotate \/ Save \/ Return \/ ExitOK \/ HandleScript \/ HandleMain

Spec == Init /\ [][Next]_vars

(***************************************************************************)
(* Properties.                                                             *)
(***************************************************************************)
TransformStages == <<"crop", "scale", "compose", "recolor", "rotate">>
AllStages       == TransformStages \o <<"save">>

IsPrefix(s, t) == Len(s) <= Len(t) /\ SubSeq(t, 1, Len(s)) = s
Did(stage)     == \E i \in 1..Len(done) : done[i] = stage

\* the stages that had completed when `stage` raised
StagesBefore(stage) ==
    CASE stage \in {"fetch", "decode", "crop"} -> <<>>
      [] stage = "scale" -> <<"crop">>
      [] stage = "save"  -> TransformStages

\* crop has been called on a loaded image
CropCalled == img # NoImage /\ pc # "opened" /\ err.stage # "decode"

\* the crop box has non-positive width or height
EmptyCropBox ==
    \/ 2 * args.left_right_crop >= img.width
    \/ 2 * args.top_bottom_crop >= img.height

\* C1: whenever the crop box has non-positive width or height, crop fails
\* with InvalidCropError, and no later stage (canvas, scale, compose,
\* recolor, rotate, save) runs.
C1_EmptyBoxRaisesInvalidCrop ==
    (CropCalled /\ EmptyCropBox) =>
        /\ err = [kind |-> "InvalidCropError", stage |-> "crop"]
        /\ done = <<>>
        /\ result = NoImage

FailedBeforeSave == err # NoErr /\ err.stage # "save"

\* C2: for both entry points, a run that failed to find, fetch, decode or
\* process the image ends with the error reported and a non-zero exit status.
C2_FailureExitsNonZero ==
    (viaMain /\ pc = "exited" /\ FailedBeforeSave) =>
        (Len(reported) > 0 /\ exitStatus # 0)

\* C3: the first failure of a stage aborts the run: the stages completed stay
\* those that preceded the failing one (no retry, no later stage), no output
\* file is written in a run that failed before the save, and the save is
\* reached only after the five transform stages completed.
C3_FirstFailureAborts ==
    /\ err # NoErr =>
          /\ pc \in {"raised", "exited"}
          /\ done = StagesBefore(err.stage)
    /\ FailedBeforeSave => outFile = NoFile
    /\ (outFile # NoFile \/ Did("save") \/ err.stage = "save") =>
          IsPrefix(TransformStages, done)

C3_FailedAtScale ==
    /\ pc = "exited" /\ err.stage = "scale"
    /\ done = <<"crop">> /\ outFile = NoFile

\* C4: the scaled size never exceeds the target on either axis, so the
\* centering offsets are never negative.
C4_ScaledFitsTarget ==
    new_size # NoSize =>
        /\ new_size[1] <= args.output_width
        /\ new_size[2] <= args.output_height
        /\ (args.output_width - new_size[1]) \div 2 >= 0
        /\ (args.output_height - new_size[2]) \div 2 >= 0
        /\ Did("compose") =>
              /\ offset = <<(args.output_width - new_size[1]) \div 2,
                            (args.output_height - new_size[2]) \div 2>>
              /\ offset[1] >= 0 /\ offset[2] >= 0

C4_Letterboxed ==
    /\ pc = "pasted"
    /\ new_size[1] = args.output_width
    /\ new_size[2] < args.output_height
    /\ offset[2] > 0
    /\ <<cropped_img.width, cropped_img.height>> # new_size

Corners(w, h) == {<<0, 0>>, <<w - 1, 0>>, <<0, h - 1>>, <<w - 1, h - 1>>}

CornersWhite ==
    \A c \in Corners(result.width, result.height) : PixelAt(result.px, c) = White

CanvasSized ==
    /\ result.width = args.output_width
    /\ result.height = args.output_height

\* C5 as stated: after the paste the canvas has the target size, and whenever
\* the scaled image is smaller than the canvas all four corners are white.
C5_CornersWhiteWhenSmaller ==
    pc = "pasted" =>
        /\ CanvasSized
        /\ (scaled_img.width < result.width \/ scaled_img.height < result.height)
              => CornersWhite

\* C5 as amended: after the paste the canvas has the target size, and
\* whenever the scaled image is at least two pixels smaller than the canvas
\* on some axis all four corners are white.
C5_CornersWhiteWhenTwoSmaller ==
    pc = "pasted" =>
        /\ CanvasSized
        /\ (result.width - scaled_img.width >= 2 \/ result.height - scaled_img.height >= 2)
              => CornersWhite

C5_BorderAroundDarkImage ==
    /\ pc = "pasted"
    /\ scaled_img.width = result.width
    /\ result.height - scaled_img.height >= 2
    /\ \A c \in Corners(scaled_img.width, scaled_img.height) :
          PixelAt(scaled_img.px, c) # White
    /\ CornersWhite

MinOf(a, b) == IF a < b THEN a ELSE b

PastedAt(p) == PixelAt(scaled_img.px, <<p[1] - offset[1], p[2] - offset[2]>>)

C7_RecolorIdempotent ==
    pc = "recolored" => SameImage(RecolorBand(result), result)

C7_RecoloredSomething ==
    /\ pc = "recolored"
    /\ \E p \in Coords(result.width, result.height) :
          /\ Covered(p, offset[1], offset[2], scaled_img.width, scaled_img.height)
          /\ NearBlack(PastedAt(p)) /\ PastedAt(p) # <<0, 0, 0>>
          /\ PixelAt(result.px, p) = Red

\* C8: the rotation maps a W x H image to an H x W image, sends source pixel
\* (col, row) to destination (row, W - 1 - col), which is a bijection between
\* the two coordinate sets, and applied four times gives the original image.
C8_Rotate90Mapping ==
    pc = "rotated" =>
        LET W == result.width
            H == result.height
        IN  /\ rotated.width = H /\ rotated.height = W
            /\ \A p \in Coords(W, H) :
                  PixelAt(rotated.px, <<p[2], W - 1 - p[1]>>) = PixelAt(result.px, p)
            /\ {<<p[2], W - 1 - p[1]>> : p \in Coords(W, H)}
                  = Coords(rotated.width, rotated.height)
            /\ Cardinality(Coords(rotated.width, rotated.height)) = Cardinality(Coords(W, H))
            /\ SameImage(Rotate90(Rotate90(Rotate90(rotated))), result)

C8_RotatedOblong ==
    /\ pc = "rotated"
    /\ result.width > 1 /\ result.height > result.width
    /\ PixelAt(result.px, <<0, 0>>) # PixelAt(result.px, <<result.width - 1, 0>>)
    /\ PixelAt(rotated.px, <<0, 0>>) = PixelAt(result.px, <<result.width - 1, 0>>)

FloatOne == FloatDiv(1, 1)

\* the run of a script on the 420 x 536 picture
DailyPicture == viaMain /\ source.width = 420 /\ source.height = 536

====
